---- MODULE Spec2Model ----
(***************************************************************************)
(* A model of github-insights: the flat file cache (src/core/cache.py),    *)
(* the upstream GitHub client (src/services/github_service.py), the        *)
(* time-window inference and the answer/summary pipeline                   *)
(* (src/core/rag_answer.py).                                               *)
(*                                                                         *)
(* Python values are tagged tuples so that values of different Python      *)
(* types can be compared: <<"null">> is None, <<"bool", b>>, <<"int", n>>, *)
(* <<"str", s>>, <<"list", <<v1, ..>>>> and <<"obj", <<<<k1, v1>>, ..>>>>  *)
(* (a dict in insertion order).                                            *)
(***************************************************************************)
EXTENDS Integers, Sequences, FiniteSets, TLC

VARIABLES
    \* ---- the file system under CACHE_DIR (cache.py)
    dirs,           \* the folders that exist under cache/
    files,          \* path -> file content (a sequence of JSON tokens); the domain is the set of existing files
    unreadable,     \* the files this process may neither read nor write
    cacheWritable,  \* whether this process may create entries under cache/
    \* ---- a caller of the cache alone
    loaded,         \* the outcome of the last load_cache call
    lastSaved,      \* history: <<key, folder>> -> the value of the last save_cache that completed
    \* ---- one call of the upstream client (github_service.py), or of the pipeline
    pc,             \* where the call is
    op,             \* the function called
    url,            \* repo_url, as its "/"-separated segments
    prState,        \* get_pull_requests' state argument
    upstream,       \* what the upstream holds for the endpoint the call addresses
    page,           \* the local page
    acc,            \* the local commits / prs / contributors list
    fetched,        \* the value the get_* function returned
    error,          \* the exception the call raised
    hit,            \* history: the call returned the cached value
    reqLog,         \* history: the upstream requests the call issued, in order
    pagesGot,       \* history: the pages the call received, in order
    lastResp,       \* history: the last upstream response
    before,         \* history: the cache files when the call began
    events,         \* history: the steps the call took, in order
    \* ---- one call of the answer / summary pipeline (rag_answer.py)
    question,       \* the question, a sequence of characters
    window,         \* time_window_days: PyInt(days) or None
    recent,         \* commits_recent
    metrics,        \* the metrics block
    context,        \* context_snippets
    idxQueries,     \* history: the queries sent to the vector index
    llmCalls,       \* history: the number of calls of the generation service
    llmText,        \* history: the text the generation service returned
    ragResult,      \* the dict the pipeline returned
    \* ---- a caller of infer_time_window alone
    wq,             \* the question, a sequence of characters
    wres,           \* what infer_time_window returned for it
    \* ---- the vector index (vectorstore.py) and its callers
    index,          \* the collection: id -> [document, metadata, embedding]; the domain is the set of stored ids
    upCall,         \* the last upsert_documents call: its arguments, its outcome, the batches it embedded
    qCall,          \* the last query_similar call: its arguments and its result
    \* ---- a caller of the metrics functions alone (metrics.py)
    mCommits,       \* the commit list passed: each commit's author time (UTC) and author name
    mOut,           \* the function called on it, and what it returned
    \* ---- the indexing of pull requests (rag_pipeline.py)
    prList,         \* the pull requests handed to _build_pr_docs
    \* ---- two concurrent get_commits requests for one repository, and a reader of the cache
    rpc,            \* request -> where it is
    rval,           \* request -> the commits list it fetched
    rpos,           \* request -> the number of blocks it has written to its open file
    closes,         \* history: the requests whose save_cache has finished, in that order
    rload           \* the last load_cache: its caller and the value it returned

fsVars == <<dirs, files, unreadable, cacheWritable>>
harnessVars == <<loaded, lastSaved>>
clientVars == <<pc, op, url, prState, upstream, page, acc, fetched, error, hit,
                reqLog, pagesGot, lastResp, before, events>>
ragVars == <<question, window, recent, metrics, context, idxQueries, llmCalls, llmText, ragResult>>
winVars == <<wq, wres>>
idxVars == <<index, upCall, qCall>>
\* The state of the parts that no call of the cache, the client or the pipeline touches.
metVars == <<mCommits, mOut>>
raceVars == <<rpc, rval, rpos, closes, rload>>
extVars == <<idxVars, metVars, prList, raceVars>>
vars == <<fsVars, harnessVars, clientVars, ragVars, winVars, extVars>>

\* What the actions of the cache caller leave alone.
notCache == <<clientVars, ragVars, winVars, extVars>>
\* What the actions of the upstream client leave alone.
notClient == <<unreadable, cacheWritable, lastSaved, winVars, extVars>>

Min(a, b) == IF a < b THEN a ELSE b

(***************************************************************************)
(* Python values and truthiness                                            *)
(***************************************************************************)
None == <<"null">>
PyBool(b) == <<"bool", b>>
PyInt(n) == <<"int", n>>
PyStr(s) == <<"str", s>>
PyList(vs) == <<"list", vs>>
PyObj(kvs) == <<"obj", kvs>>

\* bool(v) as Python's `if v:` computes it.
Truthy(v) ==
    CASE v[1] = "null" -> FALSE
      [] v[1] = "bool" -> v[2]
      [] v[1] = "int"  -> v[2] # 0
      [] v[1] = "str"  -> v[2] # ""
      [] OTHER         -> v[2] # <<>>

(***************************************************************************)
(* json.dump / json.load, on token sequences.  The whitespace that         *)
(* indent=2 adds is skipped by the parser and is not written here.         *)
(***************************************************************************)
MaxInt == 6
IntU == -1..MaxInt
StrU == {"", "a", "k"}

IntTok(n) == ToString(n)
StrTok(s) == "\"" \o s \o "\""
IntToks == {IntTok(n) : n \in IntU}
StrToks == {StrTok(s) : s \in StrU}
TokInt(t) == CHOOSE n \in IntU : IntTok(n) = t
TokStr(t) == CHOOSE s \in StrU : StrTok(s) = t

RECURSIVE JsonDump(_)
RECURSIVE DumpItems(_)
RECURSIVE DumpMembers(_)
DumpItems(vs) ==
    IF vs = <<>> THEN <<>>
    ELSE JsonDump(Head(vs))
         \o (IF Len(vs) > 1 THEN <<",">> \o DumpItems(Tail(vs)) ELSE <<>>)
DumpMembers(kvs) ==
    IF kvs = <<>> THEN <<>>
    ELSE <<StrTok(Head(kvs)[1]), ":">> \o JsonDump(Head(kvs)[2])
         \o (IF Len(kvs) > 1 THEN <<",">> \o DumpMembers(Tail(kvs)) ELSE <<>>)
JsonDump(v) ==
    CASE v[1] = "null" -> <<"null">>
      [] v[1] = "bool" -> IF v[2] THEN <<"true">> ELSE <<"false">>
      [] v[1] = "int"  -> <<IntTok(v[2])>>
      [] v[1] = "str"  -> <<StrTok(v[2])>>
      [] v[1] = "list" -> <<"[">> \o DumpItems(v[2]) \o <<"]">>
      [] OTHER         -> <<"{">> \o DumpMembers(v[2]) \o <<"}">>

\* A parse result: ok, the value, and the position after it.
ParseFail == [ok |-> FALSE, v |-> None, next |-> 0]
ParseOk(v, n) == [ok |-> TRUE, v |-> v, next |-> n]

RECURSIVE ParseValue(_, _)
RECURSIVE ParseItems(_, _, _)
RECURSIVE ParseMembers(_, _, _)
\* the elements of a list, the first at position i, got the ones read so far
ParseItems(toks, i, got) ==
    LET r == ParseValue(toks, i) IN
    IF ~r.ok \/ r.next > Len(toks) THEN ParseFail
    ELSE IF toks[r.next] = "]" THEN ParseOk(PyList(Append(got, r.v)), r.next + 1)
    ELSE IF toks[r.next] = "," THEN ParseItems(toks, r.next + 1, Append(got, r.v))
    ELSE ParseFail
\* the members of an object, the first key at position i
ParseMembers(toks, i, got) ==
    IF i + 1 > Len(toks) \/ toks[i] \notin StrToks \/ toks[i + 1] # ":" THEN ParseFail
    ELSE LET r == ParseValue(toks, i + 2) IN
         IF ~r.ok \/ r.next > Len(toks) THEN ParseFail
         ELSE LET kv == <<TokStr(toks[i]), r.v>> IN
              IF toks[r.next] = "}" THEN ParseOk(PyObj(Append(got, kv)), r.next + 1)
              ELSE IF toks[r.next] = "," THEN ParseMembers(toks, r.next + 1, Append(got, kv))
              ELSE ParseFail
ParseValue(toks, i) ==
    IF i > Len(toks) THEN ParseFail
    ELSE LET t == toks[i] IN
         CASE t = "null"  -> ParseOk(None, i + 1)
           [] t = "true"  -> ParseOk(PyBool(TRUE), i + 1)
           [] t = "false" -> ParseOk(PyBool(FALSE), i + 1)
           [] t \in IntToks -> ParseOk(PyInt(TokInt(t)), i + 1)
           [] t \in StrToks -> ParseOk(PyStr(TokStr(t)), i + 1)
           [] t = "[" -> IF i + 1 <= Len(toks) /\ toks[i + 1] = "]"
                         THEN ParseOk(PyList(<<>>), i + 2)
                         ELSE ParseItems(toks, i + 1, <<>>)
           [] t = "{" -> IF i + 1 <= Len(toks) /\ toks[i + 1] = "}"
                         THEN ParseOk(PyObj(<<>>), i + 2)
                         ELSE ParseMembers(toks, i + 1, <<>>)
           [] OTHER -> ParseFail

\* json.load: the whole content must be one value, else JSONDecodeError.
JsonLoad(toks) ==
    LET r == ParseValue(toks, 1) IN
    IF r.ok /\ r.next = Len(toks) + 1 THEN [ok |-> TRUE, v |-> r.v]
    ELSE [ok |-> FALSE, v |-> None]

(***************************************************************************)
(* cache.py                                                                *)
(***************************************************************************)
\* (a slip cache_path could make: the folder left out of the file's path)
MutPathWithoutFolder(key, folder) == <<"", key>>
\* cache_path's result: cache/<folder>/<key>.json
PathOf(key, folder) == <<folder, key>>

\* ensure_dir(cache/<folder>), called by cache_path outside any try:
\* os.makedirs raises when the folder is missing and cannot be created.
EnsureDirRaises(folder) == folder \notin dirs /\ ~cacheWritable

\* load_cache(key, folder): [raised, value]
LoadCache(key, folder) ==
    LET path == PathOf(key, folder) IN
    IF EnsureDirRaises(folder) THEN [raised |-> TRUE, value |-> None]
    ELSE IF path \notin DOMAIN files THEN [raised |-> FALSE, value |-> None]
    ELSE IF path \in unreadable THEN [raised |-> FALSE, value |-> None]
    ELSE LET r == JsonLoad(files[path]) IN
         [raised |-> FALSE, value |-> IF r.ok THEN r.v ELSE None]

\* the folders after cache_path(key, folder) returned
DirsAfter(folder) == dirs \cup {folder}

\* save_cache(key, folder, data) raises: cache_path, or open(path, "w")
SaveRaises(key, folder) ==
    \/ EnsureDirRaises(folder)
    \/ ~cacheWritable
    \/ PathOf(key, folder) \in unreadable

\* the files after save_cache(key, folder, data) returned
FilesAfterSave(key, folder, data) ==
    LET path == PathOf(key, folder) IN
    [p \in DOMAIN files \cup {path} |-> IF p = path THEN JsonDump(data) ELSE files[p]]

\* the folders after load_cache / save_cache: ensure_dir creates the folder
\* unless it raised; open(path, "w") creates no folder.
DirsAfterLoad(folder) == IF EnsureDirRaises(folder) THEN dirs ELSE DirsAfter(folder)

(***************************************************************************)
(* A caller of the cache alone: save_cache and load_cache in any order on  *)
(* a few (key, folder) pairs, with the failures a file system can show.    *)
(***************************************************************************)
\* the (key, folder) pairs the caller uses: two keys in one folder, one key in two folders
CachePairs == { <<"o_r_commits", "commits">>, <<"o_r_prs", "commits">>, <<"o_r_commits", "prs">> }
CacheValues ==
    { None, PyBool(FALSE), PyStr("a"), PyList(<<>>),
      PyList(<<PyInt(1), PyList(<<PyStr("")>>), PyObj(<<<<"a", None>>, <<"k", PyBool(TRUE)>>>>)>>) }

NoLoad == [called |-> FALSE, key |-> "", folder |-> "", raised |-> FALSE, value |-> None]

CacheInit ==
    /\ dirs = {}
    /\ files = <<>>
    /\ unreadable = {}
    /\ cacheWritable = TRUE
HarnessInit ==
    /\ loaded = NoLoad
    /\ lastSaved = <<>>

\* save_cache(key, folder, data)
CSave(key, folder, data) ==
    /\ IF SaveRaises(key, folder)
       THEN UNCHANGED <<dirs, files, lastSaved>>
       ELSE /\ dirs' = DirsAfter(folder)
            /\ files' = FilesAfterSave(key, folder, data)
            /\ lastSaved' = [kf \in DOMAIN lastSaved \cup {<<key, folder>>} |->
                                IF kf = <<key, folder>> THEN data ELSE lastSaved[kf]]
    /\ loaded' = NoLoad
    /\ UNCHANGED <<unreadable, cacheWritable, notCache>>

\* load_cache(key, folder)
CLoad(key, folder) ==
    /\ loaded' = [called |-> TRUE, key |-> key, folder |-> folder,
                  raised |-> LoadCache(key, folder).raised,
                  value |-> LoadCache(key, folder).value]
    /\ dirs' = DirsAfterLoad(folder)
    /\ UNCHANGED <<files, unreadable, cacheWritable, lastSaved, notCache>>

\* A crash or a full disk while a file was written: the file is left with
\* its first token, or empty.
TruncateFile(path) ==
    /\ path \in DOMAIN files
    /\ JsonLoad(files[path]).ok
    /\ files' = [files EXCEPT ![path] = SubSeq(@, 1, Min(1, Len(@) - 1))]
    /\ loaded' = NoLoad
    /\ UNCHANGED <<dirs, unreadable, cacheWritable, lastSaved, notCache>>

\* chmod: a file loses or regains this process's access.
Chmod(path) ==
    /\ path \in DOMAIN files
    /\ unreadable \subseteq {path}
    /\ unreadable' = IF path \in unreadable THEN unreadable \ {path} ELSE unreadable \cup {path}
    /\ loaded' = NoLoad
    /\ UNCHANGED <<dirs, files, cacheWritable, lastSaved, notCache>>

\* The cache root becomes read-only, or writable again.
SetWritable ==
    /\ cacheWritable' = ~cacheWritable
    /\ loaded' = NoLoad
    /\ UNCHANGED <<dirs, files, unreadable, lastSaved, notCache>>

CacheSave == \E kf \in CachePairs, v \in CacheValues : CSave(kf[1], kf[2], v)
CacheLoad == \E kf \in CachePairs : CLoad(kf[1], kf[2])
CacheTruncate == \E p \in DOMAIN files : TruncateFile(p)
CacheChmod == \E p \in DOMAIN files : Chmod(p)


(***************************************************************************)
(* rag_answer.py: infer_time_window.  A text is a sequence of characters.  *)
(***************************************************************************)
UpperCase == <<"A", "B", "C", "D", "E", "F", "G", "H", "I", "J", "K", "L", "M", "N", "O", "P", "Q", "R", "S", "T", "U", "V", "W", "X", "Y", "Z">>
LowerCase == <<"a", "b", "c", "d", "e", "f", "g", "h", "i", "j", "k", "l", "m", "n", "o", "p", "q", "r", "s", "t", "u", "v", "w", "x", "y", "z">>
\* str.lower() on one character
LowerChar(c) ==
    IF \E i \in 1..Len(UpperCase) : UpperCase[i] = c
    THEN LowerCase[CHOOSE i \in 1..Len(UpperCase) : UpperCase[i] = c]
    ELSE c
Lower(text) == [i \in DOMAIN text |-> LowerChar(text[i])]
\* `kw in q`: kw occurs in q as a substring
Contains(q, kw) == \E i \in 0..(Len(q) - Len(kw)) : SubSeq(q, i + 1, i + Len(kw)) = kw

K_today == <<"t", "o", "d", "a", "y">>
K_yesterday == <<"y", "e", "s", "t", "e", "r", "d", "a", "y">>
K_this_week == <<"t", "h", "i", "s", " ", "w", "e", "e", "k">>
K_past_week == <<"p", "a", "s", "t", " ", "w", "e", "e", "k">>
K_last_week == <<"l", "a", "s", "t", " ", "w", "e", "e", "k">>
K_recent == <<"r", "e", "c", "e", "n", "t">>
K_recently == <<"r", "e", "c", "e", "n", "t", "l", "y">>
K_this_month == <<"t", "h", "i", "s", " ", "m", "o", "n", "t", "h">>
K_last_month == <<"l", "a", "s", "t", " ", "m", "o", "n", "t", "h">>
K_past_month == <<"p", "a", "s", "t", " ", "m", "o", "n", "t", "h">>
K_this_year == <<"t", "h", "i", "s", " ", "y", "e", "a", "r">>
K_last_year == <<"l", "a", "s", "t", " ", "y", "e", "a", "r">>
K_past_year == <<"p", "a", "s", "t", " ", "y", "e", "a", "r">>
K_why == <<"w", "h", "y">>
K_how == <<"h", "o", "w">>
K_architecture == <<"a", "r", "c", "h", "i", "t", "e", "c", "t", "u", "r", "e">>
K_tokenizer == <<"t", "o", "k", "e", "n", "i", "z", "e", "r">>
K_design == <<"d", "e", "s", "i", "g", "n">>
K_model == <<"m", "o", "d", "e", "l">>

\* (a slip infer_time_window could make: the conceptual keywords tested first)
MutInferConceptualFirst(text) ==
    LET q == Lower(text) IN
    IF \E k \in {K_why, K_how, K_architecture, K_tokenizer, K_design, K_model} :
          Contains(q, k)
    THEN None
    ELSE IF Contains(q, K_today) THEN PyInt(1)
    ELSE IF Contains(q, K_yesterday) THEN PyInt(2)
    ELSE IF \E k \in {K_this_week, K_past_week, K_last_week, K_recent, K_recently} :
               Contains(q, k)
         THEN PyInt(7)
    ELSE IF \E k \in {K_this_month, K_last_month, K_past_month} : Contains(q, k)
         THEN PyInt(30)
    ELSE IF \E k \in {K_this_year, K_last_year, K_past_year} : Contains(q, k)
         THEN PyInt(365)
    ELSE PyInt(30)

\* infer_time_window(question): PyInt(days), or None for the full history
InferTimeWindow(text) ==
    LET q == Lower(text) IN
    IF Contains(q, K_today) THEN PyInt(1)
    ELSE IF Contains(q, K_yesterday) THEN PyInt(2)
    ELSE IF Contains(q, K_this_week) \/ Contains(q, K_past_week) \/ Contains(q, K_last_week)
         THEN PyInt(7)
    ELSE IF Contains(q, K_recent) \/ Contains(q, K_recently) THEN PyInt(7)
    ELSE IF Contains(q, K_this_month) \/ Contains(q, K_last_month) \/ Contains(q, K_past_month)
         THEN PyInt(30)
    ELSE IF Contains(q, K_this_year) \/ Contains(q, K_last_year) \/ Contains(q, K_past_year)
         THEN PyInt(365)
    ELSE IF \E k \in {K_why, K_how, K_architecture, K_tokenizer, K_design, K_model} :
               Contains(q, k)
         THEN None
    ELSE PyInt(30)

\* The questions asked: up to MaxPhrases phrases, one after the other.
MaxPhrases == 2
Phrases ==
    { <<"T", "o", "d", "a", "y">>,
      <<"Y", "E", "S", "T", "E", "R", "D", "A", "Y">>,
      <<"t", "h", "i", "s", " ", "w", "e", "e", "k">>,
      <<"P", "a", "s", "t", " ", "W", "e", "e", "k">>,
      <<"l", "a", "s", "t", " ", "w", "e", "e", "k">>,
      <<"r", "e", "c", "e", "n", "t">>,
      <<"R", "e", "c", "e", "n", "t", "l", "y">>,
      <<"t", "h", "i", "s", " ", "m", "o", "n", "t", "h">>,
      <<"L", "a", "s", "t", " ", "M", "o", "n", "t", "h">>,
      <<"p", "a", "s", "t", " ", "m", "o", "n", "t", "h">>,
      <<"t", "h", "i", "s", " ", "y", "e", "a", "r">>,
      <<"l", "a", "s", "t", " ", "y", "e", "a", "r">>,
      <<"P", "A", "S", "T", " ", "Y", "E", "A", "R">>,
      <<"W", "h", "y">>,
      <<"h", "o", "w">>,
      <<"a", "r", "c", "h", "i", "t", "e", "c", "t", "u", "r", "e">>,
      <<"T", "o", "k", "e", "n", "i", "z", "e", "r">>,
      <<"d", "e", "s", "i", "g", "n">>,
      <<"m", "o", "d", "e", "l">>,
      <<"w", "h", "a", "t", " ", "c", "h", "a", "n", "g", "e", "d", " ">>,
      <<"s", "o", "m", "e", "h", "o", "w">>,
      <<"?">>,
      <<"t", "o", " ", "d", "a", "y">>,
      <<" ">> }
RECURSIVE Texts(_)
Texts(n) == IF n = 0 THEN {<<>>} ELSE Texts(n - 1) \cup {t \o ph : t \in Texts(n - 1), ph \in Phrases}
Questions == Texts(MaxPhrases)

Pending == <<"pending">>
WinIdle ==
    /\ wq = <<>>
    /\ wres = Pending

\* wres = infer_time_window(wq)
Infer ==
    /\ wres = Pending
    /\ wres' = InferTimeWindow(wq)
    /\ UNCHANGED <<wq, fsVars, harnessVars, clientVars, ragVars, extVars>>

(***************************************************************************)
(* github_service.py: the upstream client                                  *)
(***************************************************************************)
\* The items an upstream list is made of are numbered 1..NItems; the page
\* size (per_page = 100 in the code, and the server's default when no
\* parameter is sent) is scaled down to PerPage.
NItems == 2
PerPage == 1

RECURSIVE SetToSeq(_)
SetToSeq(S) ==
    IF S = {} THEN <<>>
    ELSE LET m == CHOOSE x \in S : \A y \in S : x <= y IN <<m>> \o SetToSeq(S \ {m})
\* the lists an upstream endpoint may hold: distinct items, in a fixed order
ListsOver(n) == {SetToSeq(S) : S \in SUBSET (1..n)}
UpstreamLists == ListsOver(NItems)

PrStates == {"all", "open", "closed"}
\* the state of pull request i at the upstream
StateOf(i) == IF i % 2 = 1 THEN "open" ELSE "closed"

RECURSIVE SelectState(_, _)
SelectState(list, st) ==
    IF list = <<>> THEN <<>>
    ELSE (IF st = "all" \/ StateOf(Head(list)) = st THEN <<Head(list)>> ELSE <<>>)
         \o SelectState(Tail(list), st)

\* The upstream's answer to GET <endpoint>?page=p&per_page=PerPage[&state=st]
UpstreamPage(list, p) == SubSeq(list, (p - 1) * PerPage + 1, Min(p * PerPage, Len(list)))

\* resp.json(): the body as Python values
RespJson(items) == [i \in DOMAIN items |-> PyInt(items[i])]

\* A response that is not resp.ok
ErrorResponses == { [ok |-> FALSE, status |-> 403, text |-> "rate limit exceeded"],
                    [ok |-> FALSE, status |-> 500, text |-> "server error"] }
OkResponse == [ok |-> TRUE, status |-> 200, text |-> ""]

NoError == <<"none">>
\* (a slip the error could make: the body left out)
MutErrorWithoutBody(resp) == <<"Exception", "GitHub API Error", resp.status, "">>
\* raise Exception(f"GitHub API Error {resp.status_code}: {resp.text}")
GithubApiError(resp) == <<"Exception", "GitHub API Error", resp.status, resp.text>>
ValueErrorInvalidUrl == <<"ValueError", "Invalid GitHub URL format">>
OSErrorCache == <<"OSError">>

\* extract_owner_repo: re.search(r"github\.com/([^/]+)/([^/]+)", repo_url) on
\* the segments of the URL: a segment ending in github.com followed by two
\* non-empty segments; the leftmost match.
GithubHosts == {"github.com", "www.github.com"}
Urls == { <<"https:", "", "www.github.com", "o", "r", "pulls">>,
          <<"https:", "", "github.com", "o">> }
MatchAt(u, i) == i + 2 <= Len(u) /\ u[i] \in GithubHosts /\ u[i + 1] # "" /\ u[i + 2] # ""
ExtractOwnerRepo(u) ==
    IF \E i \in 1..Len(u) : MatchAt(u, i)
    THEN LET i == CHOOSE j \in 1..Len(u) : MatchAt(u, j) /\ \A h \in 1..(j - 1) : ~MatchAt(u, h)
         IN [ok |-> TRUE, owner |-> u[i + 1], repo |-> u[i + 2]]
    ELSE [ok |-> FALSE, owner |-> "", repo |-> ""]

ClientOps == {"get_commits", "get_pull_requests", "get_contributors", "get_branches"}
PipelineOps == {"answer_question", "summarize_repo"}
\* the kind of list a function fetches: the cache folder and the key's suffix
KindOf(o) ==
    CASE o = "get_pull_requests" -> "prs"
      [] o = "get_contributors"  -> "contributors"
      [] o = "get_branches"      -> "branches"
      [] OTHER                   -> "commits"
PagedKinds == {"commits", "prs"}
CachedKinds == {"commits", "prs", "contributors"}

\* (a slip the key could make: the state asked for made part of the pulls key)
MutCacheKeyWithState(u, kind) ==
    ExtractOwnerRepo(u).owner \o "_" \o ExtractOwnerRepo(u).repo \o "_" \o kind
        \o (IF kind = "prs" THEN "_" \o prState ELSE "")
\* cache_key = f"{owner}_{repo}_{kind}"
CacheKey(u, kind) == ExtractOwnerRepo(u).owner \o "_" \o ExtractOwnerRepo(u).repo \o "_" \o kind
CallPath == PathOf(CacheKey(url, KindOf(op)), KindOf(op))

\* (a slip the cache test could make: `if cached is not None`)
MutHitWhenPresent(cached) == cached # None
\* `if cached: return cached`
CacheHit(cached) == Truthy(cached)

\* (a slip the loop could make: the new page put in front)
MutExtendInFront(list, data) == data \o list
\* commits.extend(data) / prs.extend(data)
Extend(list, data) == list \o data

\* what the endpoint lists for this call: pulls filters by state
UpstreamView == IF KindOf(op) = "prs" THEN SelectState(upstream, prState) ELSE upstream

\* the request the paginated loop sends for the local page
PageParams == [endpoint |-> KindOf(op), page |-> page,
               state |-> IF KindOf(op) = "prs" THEN prState ELSE ""]
\* the request get_contributors and get_branches send: no parameters
NoParams == [endpoint |-> KindOf(op), page |-> 0, state |-> ""]

\* where the get_* function returns to
AfterFetch == IF op \in PipelineOps THEN "filter" ELSE "done"

NoMetrics == [computed |-> FALSE, total_commits_recent |-> 0]
NoResult == [returned |-> FALSE]
RagIdle ==
    /\ question = <<>>
    /\ window = None
    /\ recent = <<>>
    /\ metrics = NoMetrics
    /\ context = <<>>
    /\ idxQueries = <<>>
    /\ llmCalls = 0
    /\ llmText = ""
    /\ ragResult = NoResult

ClientIdle ==
    /\ pc = "idle"
    /\ op = ""
    /\ url = <<>>
    /\ prState = ""
    /\ upstream = <<>>
    /\ page = 0
    /\ acc = <<>>
    /\ fetched = None
    /\ error = NoError
    /\ hit = FALSE
    /\ reqLog = <<>>
    /\ pagesGot = <<>>
    /\ lastResp = OkResponse
    /\ before = <<>>
    /\ events = <<>>

\* A call of o(repo_url[, state]) begins; the upstream holds any list.
BeginCall(o, u, up, st) ==
    /\ pc = "idle"
    /\ pc' = "parse"
    /\ op' = o
    /\ url' = u
    /\ prState' = st
    /\ upstream' = up
    /\ page' = 0
    /\ acc' = <<>>
    /\ fetched' = None
    /\ error' = NoError
    /\ hit' = FALSE
    /\ reqLog' = <<>>
    /\ pagesGot' = <<>>
    /\ lastResp' = OkResponse
    /\ before' = files
    /\ events' = <<>>

Begin ==
    /\ \E o \in ClientOps, u \in Urls, up \in UpstreamLists, st \in PrStates :
          /\ (o # "get_pull_requests" => st = "all")
          /\ BeginCall(o, u, up, st)
    /\ UNCHANGED <<dirs, files, loaded, notClient, ragVars>>

\* owner, repo = extract_owner_repo(repo_url)
ParseUrl ==
    /\ pc = "parse"
    /\ events' = Append(events, "parse")
    /\ IF ExtractOwnerRepo(url).ok
       THEN /\ pc' = CASE op = "answer_question" -> "infer"
                       [] op = "get_branches"    -> "single"
                       [] OTHER                  -> "load"
            /\ error' = error
       ELSE /\ pc' = "failed"
            /\ error' = ValueErrorInvalidUrl
    /\ UNCHANGED <<op, url, prState, upstream, page, acc, fetched, hit, reqLog, pagesGot,
                   lastResp, before>>
    /\ UNCHANGED <<dirs, files, loaded, notClient, ragVars>>

\* cached = load_cache(cache_key, kind); if cached: return cached
CacheLookup ==
    /\ pc = "load"
    /\ events' = Append(events, "fetch")
    /\ LET r == LoadCache(CacheKey(url, KindOf(op)), KindOf(op)) IN
       IF r.raised
       THEN /\ pc' = "failed"
            /\ error' = OSErrorCache
            /\ UNCHANGED <<fetched, hit, page>>
       ELSE IF CacheHit(r.value)
       THEN /\ pc' = AfterFetch
            /\ fetched' = r.value
            /\ hit' = TRUE
            /\ UNCHANGED <<error, page>>
       ELSE /\ pc' = IF KindOf(op) \in PagedKinds THEN "page" ELSE "single"
            /\ page' = IF KindOf(op) \in PagedKinds THEN 1 ELSE page
            /\ UNCHANGED <<fetched, hit, error>>
    /\ dirs' = DirsAfterLoad(KindOf(op))
    /\ UNCHANGED <<op, url, prState, upstream, acc, reqLog, pagesGot, lastResp, before>>
    /\ UNCHANGED <<files, loaded, notClient, ragVars>>

\* One turn of the `while True` loop of get_commits / get_pull_requests.
PageRequest ==
    /\ pc = "page"
    /\ reqLog' = Append(reqLog, PageParams)
    /\ \E resp \in ErrorResponses \cup {OkResponse} :
          /\ lastResp' = resp
          /\ IF ~resp.ok
             THEN /\ pc' = "failed"
                  /\ error' = GithubApiError(resp)
                  /\ UNCHANGED <<page, acc, pagesGot>>
             ELSE LET data == RespJson(UpstreamPage(UpstreamView, page)) IN
                  /\ pagesGot' = Append(pagesGot, data)
                  /\ error' = error
                  /\ IF data = <<>>
                     THEN pc' = "save" /\ UNCHANGED <<page, acc>>
                     ELSE pc' = "page" /\ acc' = Extend(acc, data) /\ page' = page + 1
    /\ UNCHANGED <<op, url, prState, upstream, fetched, hit, before, events>>
    /\ UNCHANGED <<dirs, files, loaded, notClient, ragVars>>

\* The one request of get_contributors / get_branches.
SingleRequest ==
    /\ pc = "single"
    /\ reqLog' = Append(reqLog, NoParams)
    /\ \E resp \in ErrorResponses \cup {OkResponse} :
          /\ lastResp' = resp
          /\ IF ~resp.ok
             THEN /\ pc' = "failed"
                  /\ error' = GithubApiError(resp)
                  /\ UNCHANGED <<acc, pagesGot, fetched>>
             ELSE LET data == RespJson(UpstreamPage(UpstreamView, 1)) IN
                  /\ pagesGot' = Append(pagesGot, data)
                  /\ error' = error
                  /\ IF KindOf(op) = "branches"
                     THEN pc' = "done" /\ fetched' = PyList(data) /\ acc' = acc
                     ELSE pc' = "save" /\ acc' = data /\ fetched' = fetched
    /\ UNCHANGED <<op, url, prState, upstream, page, hit, before, events>>
    /\ UNCHANGED <<dirs, files, loaded, notClient, ragVars>>

\* save_cache(cache_key, kind, acc); return acc
CacheStore ==
    /\ pc = "save"
    /\ IF SaveRaises(CacheKey(url, KindOf(op)), KindOf(op))
       THEN /\ pc' = "failed"
            /\ error' = OSErrorCache
            /\ UNCHANGED <<dirs, files, fetched>>
       ELSE /\ pc' = AfterFetch
            /\ dirs' = DirsAfter(KindOf(op))
            /\ files' = FilesAfterSave(CacheKey(url, KindOf(op)), KindOf(op), PyList(acc))
            /\ fetched' = PyList(acc)
            /\ error' = error
    /\ UNCHANGED <<op, url, prState, upstream, page, acc, hit, reqLog, pagesGot, lastResp,
                   before, events>>
    /\ UNCHANGED <<loaded, notClient, ragVars>>


(***************************************************************************)
(* rag_answer.py: answer_question and summarize_repo                       *)
(***************************************************************************)
\* A commit is known by its number.  The author date of commit c, seen from
\* the moment of the request: present and parseable with an age in days,
\* missing, or not parseable by datetime.fromisoformat.  The commits the
\* upstream serves (c >= 1) carry an ISO-8601 date; 0 and -1 stand for a
\* commit object without one.
NCommits == 3
CommitHistories == ListsOver(NCommits)
\* histories that may also hold a commit without a date (0) and one whose date does not parse (-1)
DatedHistories == {SetToSeq(S) : S \in SUBSET (-1..2)}
DateOf(c) ==
    CASE c = 1  -> [kind |-> "ok", age |-> 0]
      [] c = 2  -> [kind |-> "ok", age |-> 20]
      [] c = 0  -> [kind |-> "missing", age |-> 0]
      [] c = -1 -> [kind |-> "unparseable", age |-> 0]
      [] OTHER  -> [kind |-> "ok", age |-> 400]

\* _filter_commits_by_days(commits, days): [raised, list].  A commit with
\* no date is skipped; fromisoformat raises on a date it cannot parse.
RECURSIVE KeepRecent(_, _)
KeepRecent(commits, days) ==
    IF commits = <<>> THEN <<>>
    ELSE (IF DateOf(Head(commits)[2]).kind = "ok" /\ DateOf(Head(commits)[2]).age <= days
          THEN <<Head(commits)>> ELSE <<>>) \o KeepRecent(Tail(commits), days)
FilterCommitsByDays(commits, days) ==
    IF days = None THEN [raised |-> FALSE, list |-> commits]
    ELSE IF \E i \in 1..Len(commits) : DateOf(commits[i][2]).kind = "unparseable"
    THEN [raised |-> TRUE, list |-> <<>>]
    ELSE [raised |-> FALSE, list |-> KeepRecent(commits, days[2])]

\* commits_per_day / commits_per_week raise on a commit whose date is
\* missing (KeyError) or not parseable (ValueError).
MetricsRaise(commits) == \E i \in 1..Len(commits) : DateOf(commits[i][2]).kind # "ok"
MetricsBlock(commits) == [computed |-> TRUE, total_commits_recent |-> Len(commits)]

\* (a slip the early exit could make: never taken)
MutNeverEmpty(m) == FALSE
\* `if metrics["total_commits_recent"] == 0`
IsEmptyPeriod(m) == m.total_commits_recent = 0

NoActivity == "No activity in this period."
RecentActivity == <<"r", "e", "c", "e", "n", "t", " ", "a", "c", "t", "i", "v", "i", "t", "y">>
\* (a slip summarize_repo could make: the retrieval text taken from the request)
MutQueryTextIsQuestion(o) == question
\* the text _build_context_snippets is called with
QueryText(o) == IF o = "answer_question" THEN question ELSE RecentActivity

\* the default k of answer_question and of summarize_repo
AnswerK == 15
SummaryK == 20
KOf(o) == IF o = "answer_question" THEN AnswerK ELSE SummaryK
Take(list, n) == SubSeq(list, 1, Min(n, Len(list)))

\* repo_full_name = f"{owner}/{repo}"
RepoFullName(u) == ExtractOwnerRepo(u).owner \o "/" \o ExtractOwnerRepo(u).repo

\* what the vector index may return for a query, and the generation service for a prompt
IndexResults == { <<>>, <<"d1">>, <<"d2", "d1">> }
LlmTexts == {"text A", "text B"}
RuntimeErrorLlm == <<"RuntimeError", "HF API Error">>
ValueErrorDate == <<"ValueError", "Invalid isoformat string">>
KeyErrorDate == <<"KeyError", "date">>
\* commits_per_day runs first and reads c["commit"]["author"]["date"] of every
\* commit; commits_per_week then parses every date.
MetricsError(commits) ==
    IF \E i \in 1..Len(commits) : DateOf(commits[i][2]).kind = "missing"
    THEN KeyErrorDate ELSE ValueErrorDate

\* the questions asked of answer_question, and the windows asked of summarize_repo
RagQuestions == { <<"w", "h", "a", "t", " ", "c", "h", "a", "n", "g", "e", "d", " ", "t", "o", "d", "a", "y", "?">>, <<"W", "h", "y">>, <<"r", "e", "c", "e", "n", "t">>, <<"?">>, <<"l", "a", "s", "t", " ", "y", "e", "a", "r">> }
SummaryWindows == { PyInt(7), PyInt(365) }

\* (a slip answer_question could make: the retrieval left out)
MutAfterCheckIsLlm == "llm"
\* where answer_question goes on when the period is not empty
AfterCheck == "index"

\* answer_question(repo_url, question) or summarize_repo(repo_url, days) begins.
BeginRagWith(histories) ==
    /\ \E o \in PipelineOps, u \in Urls, up \in histories,
          q \in RagQuestions, w \in SummaryWindows :
          /\ BeginCall(o, u, up, "all")
          /\ question' = IF o = "answer_question" THEN q ELSE <<>>
          /\ window' = IF o = "answer_question" THEN None ELSE w
          /\ (o = "answer_question" => w = PyInt(7))
          /\ (o = "summarize_repo" => q = <<"?">>)
    /\ recent' = <<>>
    /\ metrics' = NoMetrics
    /\ context' = <<>>
    /\ idxQueries' = <<>>
    /\ llmCalls' = 0
    /\ llmText' = ""
    /\ ragResult' = NoResult
    /\ UNCHANGED <<dirs, files, loaded, notClient>>
\* ... on a repository whose commits all carry a date that parses
BeginRag == BeginRagWith(CommitHistories)
\* ... on a repository where a commit's date may be missing or may not parse
BeginRagDated == BeginRagWith(DatedHistories)

\* time_window_days = infer_time_window(question)
InferWindow ==
    /\ pc = "infer"
    /\ pc' = "load"
    /\ window' = InferTimeWindow(question)
    /\ events' = Append(events, "infer")
    /\ UNCHANGED <<op, url, prState, upstream, page, acc, fetched, error, hit, reqLog,
                   pagesGot, lastResp, before>>
    /\ UNCHANGED <<question, recent, metrics, context, idxQueries, llmCalls, llmText, ragResult>>
    /\ UNCHANGED <<dirs, files, loaded, notClient>>

\* commits_recent = _filter_commits_by_days(commits, time_window_days)
FilterCommits ==
    /\ pc = "filter"
    /\ events' = Append(events, "filter")
    /\ LET r == FilterCommitsByDays(fetched[2], window) IN
       IF r.raised
       THEN pc' = "failed" /\ error' = ValueErrorDate /\ recent' = recent
       ELSE pc' = "metrics" /\ error' = error /\ recent' = r.list
    /\ UNCHANGED <<op, url, prState, upstream, page, acc, fetched, hit, reqLog,
                   pagesGot, lastResp, before>>
    /\ UNCHANGED <<question, window, metrics, context, idxQueries, llmCalls, llmText, ragResult>>
    /\ UNCHANGED <<dirs, files, loaded, notClient>>

\* the dict _build_metrics_block returns
ComputeMetrics ==
    /\ pc = "metrics"
    /\ events' = Append(events, "metrics")
    /\ IF MetricsRaise(recent)
       THEN pc' = "failed" /\ error' = MetricsError(recent) /\ metrics' = metrics
       ELSE /\ pc' = IF op = "answer_question" THEN "check" ELSE "index"
            /\ error' = error
            /\ metrics' = MetricsBlock(recent)
    /\ UNCHANGED <<op, url, prState, upstream, page, acc, fetched, hit, reqLog,
                   pagesGot, lastResp, before>>
    /\ UNCHANGED <<question, window, recent, context, idxQueries, llmCalls, llmText, ragResult>>
    /\ UNCHANGED <<dirs, files, loaded, notClient>>

\* answer_question's early return when no commit is left
CheckActivity ==
    /\ pc = "check"
    /\ IF IsEmptyPeriod(metrics)
       THEN /\ pc' = "done"
            /\ ragResult' = [returned |-> TRUE, repo |-> RepoFullName(url), question |-> question,
                             time_window_used |-> window, answer |-> NoActivity,
                             metrics |-> metrics, used_context |-> <<>>]
       ELSE /\ pc' = AfterCheck
            /\ ragResult' = ragResult
    /\ UNCHANGED <<op, url, prState, upstream, page, acc, fetched, error, hit, reqLog,
                   pagesGot, lastResp, before, events>>
    /\ UNCHANGED <<question, window, recent, metrics, context, idxQueries, llmCalls, llmText>>
    /\ UNCHANGED <<dirs, files, loaded, notClient>>

\* context_snippets = _build_context_snippets(repo_full_name, text, k)
QueryIndex ==
    /\ pc = "index"
    /\ pc' = "llm"
    /\ events' = Append(events, "index")
    /\ idxQueries' = Append(idxQueries, [repo |-> RepoFullName(url), text |-> QueryText(op),
                                         k |-> KOf(op)])
    /\ \E docs \in IndexResults : context' = docs
    /\ UNCHANGED <<op, url, prState, upstream, page, acc, fetched, error, hit, reqLog,
                   pagesGot, lastResp, before>>
    /\ UNCHANGED <<question, window, recent, metrics, llmCalls, llmText, ragResult>>
    /\ UNCHANGED <<dirs, files, loaded, notClient>>

\* generate_answer_from_llm(messages), and the return of the result
Generate ==
    /\ pc = "llm"
    /\ events' = Append(events, "llm")
    /\ llmCalls' = llmCalls + 1
    /\ \/ /\ pc' = "failed"
          /\ error' = RuntimeErrorLlm
          /\ UNCHANGED <<llmText, ragResult>>
       \/ \E t \in LlmTexts :
             /\ pc' = "done"
             /\ error' = error
             /\ llmText' = t
             /\ ragResult' =
                  IF op = "answer_question"
                  THEN [returned |-> TRUE, repo |-> RepoFullName(url), question |-> question,
                        time_window_used |-> window, answer |-> t,
                        metrics |-> metrics, used_context |-> Take(context, KOf(op))]
                  ELSE [returned |-> TRUE, status |-> "success", repo |-> RepoFullName(url),
                        summary |-> t, metrics |-> metrics,
                        used_context |-> Take(context, KOf(op))]
    /\ UNCHANGED <<op, url, prState, upstream, page, acc, fetched, hit, reqLog,
                   pagesGot, lastResp, before>>
    /\ UNCHANGED <<question, window, recent, metrics, context, idxQueries>>
    /\ UNCHANGED <<dirs, files, loaded, notClient>>

\* The call returned or raised; the next call may begin.
Finish ==
    /\ pc \in {"done", "failed"}
    /\ pc' = "idle"
    /\ op' = ""
    /\ url' = <<>>
    /\ prState' = ""
    /\ upstream' = <<>>
    /\ page' = 0
    /\ acc' = <<>>
    /\ fetched' = None
    /\ error' = NoError
    /\ hit' = FALSE
    /\ reqLog' = <<>>
    /\ pagesGot' = <<>>
    /\ lastResp' = OkResponse
    /\ before' = <<>>
    /\ events' = <<>>
    /\ question' = <<>>
    /\ window' = None
    /\ recent' = <<>>
    /\ metrics' = NoMetrics
    /\ context' = <<>>
    /\ idxQueries' = <<>>
    /\ llmCalls' = 0
    /\ llmText' = ""
    /\ ragResult' = NoResult
    /\ UNCHANGED <<dirs, files, loaded, notClient>>

\* Between two calls a cache file may be damaged.
Damage == pc = "idle" /\ CacheTruncate

(***************************************************************************)
(* vectorstore.py: upsert_documents and query_similar                      *)
(***************************************************************************)
\* The batches are at most MaxBatch long; ids, texts and metadata are drawn
\* from small sets.  Within one batch the ids are distinct (the collection
\* rejects a batch that names an id twice).
MaxBatch == 2
Repos == {"o/r", "p/q"}
DocIds == {"d1", "d2", "d3"}
DocTexts == {"t1", "t2"}
DocMetas == { [repo |-> r] : r \in Repos }
SeqsUpTo(S, n) == UNION { [1..m -> S] : m \in 0..n }
Range(f) == { f[i] : i \in DOMAIN f }
IdBatches == { b \in SeqsUpTo(DocIds, MaxBatch) : Cardinality(Range(b)) = Len(b) }

\* embed_texts(texts): one vector per text, a function of the text alone
Embed(text) == <<"vec", text>>
EmbedTexts(texts) == [i \in DOMAIN texts |-> Embed(texts[i])]

ShapeMismatch == <<"ValueError", "ids, texts, metadatas must have same length">>
NoIndexError == <<"none">>

\* (a slip the guard could make: a no-op only when every argument is empty)
MutNoOpWhenAllEmpty(ids, texts, metadatas) == ids = <<>> /\ texts = <<>> /\ metadatas = <<>>
\* `if not ids: return`
IsNoOp(ids, texts, metadatas) == ids = <<>>
\* `if not (len(ids) == len(texts) == len(metadatas))`
SameLength(ids, texts, metadatas) == Len(ids) = Len(texts) /\ Len(texts) = Len(metadatas)

\* collection.upsert(ids, documents, metadatas, embeddings): a document per
\* id, the stored one replaced
CollectionUpsert(idx, ids, texts, metadatas, embeddings) ==
    [id \in (DOMAIN idx) \cup Range(ids) |->
        IF id \in Range(ids)
        THEN LET i == CHOOSE j \in DOMAIN ids : ids[j] = id IN
             [document |-> texts[i], metadata |-> metadatas[i], embedding |-> embeddings[i]]
        ELSE idx[id]]

\* upsert_documents(ids, texts, metadatas) on the collection idx:
\* whether it raised, the collection afterwards, the batches embedded
UpsertDocuments(idx, ids, texts, metadatas) ==
    IF IsNoOp(ids, texts, metadatas)
    THEN [raised |-> FALSE, error |-> NoIndexError, index |-> idx, embedded |-> <<>>]
    ELSE IF ~SameLength(ids, texts, metadatas)
    THEN [raised |-> TRUE, error |-> ShapeMismatch, index |-> idx, embedded |-> <<>>]
    ELSE [raised |-> FALSE, error |-> NoIndexError,
          index |-> CollectionUpsert(idx, ids, texts, metadatas, EmbedTexts(texts)),
          embedded |-> <<texts>>]

NoCall == [called |-> FALSE]
IndexIdle ==
    /\ index = <<>>
    /\ upCall = NoCall
    /\ qCall = NoCall

\* A caller calls upsert_documents(ids, texts, metadatas).
Upsert ==
    /\ ~upCall.called /\ ~qCall.called
    /\ \E ids \in IdBatches, texts \in SeqsUpTo(DocTexts, MaxBatch),
          metadatas \in SeqsUpTo(DocMetas, MaxBatch) :
          LET r == UpsertDocuments(index, ids, texts, metadatas) IN
          /\ index' = r.index
          /\ upCall' = [called |-> TRUE, ids |-> ids, texts |-> texts, metadatas |-> metadatas,
                        raised |-> r.raised, error |-> r.error,
                        embedded |-> r.embedded, before |-> index]
    /\ qCall' = NoCall
    /\ UNCHANGED <<fsVars, harnessVars, clientVars, ragVars, winVars, metVars, prList, raceVars>>

\* (a slip the query could make: the where clause left out)
MutNoWhere(metadata, repo) == TRUE
\* where={"repo": repo_full_name}
MatchesWhere(metadata, repo) == metadata.repo = repo
Candidates(idx, repo) == { id \in DOMAIN idx : MatchesWhere(idx[id].metadata, repo) }
\* The answers the collection may give to query(n_results=k, where=...): the
\* k nearest of the documents the where clause admits, or all of them when
\* there are fewer, in the order of a similarity the model leaves open.
QueryAnswers(idx, repo, k) ==
    LET n == Min(k, Cardinality(Candidates(idx, repo))) IN
    { r \in [1..n -> Candidates(idx, repo)] : Cardinality(Range(r)) = n }
\* the values of k the callers pass: small ones, and the pipeline's defaults
QueryKs == {1, 2, AnswerK, SummaryK}

\* _build_context_snippets(repo_full_name, question, k) calls
\* query_similar(repo_full_name, question, k) and keeps the documents.
Query ==
    /\ ~upCall.called /\ ~qCall.called
    /\ \E repo \in Repos, text \in DocTexts, k \in QueryKs :
          \E r \in QueryAnswers(index, repo, k) :
             qCall' = [called |-> TRUE, repo |-> repo, text |-> text, k |-> k,
                       embedded |-> <<<<text>>>>,
                       ids |-> r,
                       documents |-> [i \in DOMAIN r |-> index[r[i]].document],
                       metadatas |-> [i \in DOMAIN r |-> index[r[i]].metadata]]
    /\ upCall' = NoCall
    /\ UNCHANGED <<index, fsVars, harnessVars, clientVars, ragVars, winVars, metVars, prList, raceVars>>

\* The caller has taken the outcome of its call; the next call may be made.
IndexReturn ==
    /\ upCall.called \/ qCall.called
    /\ upCall' = NoCall
    /\ qCall' = NoCall
    /\ UNCHANGED <<index, fsVars, harnessVars, clientVars, ragVars, winVars, metVars, prList, raceVars>>

(***************************************************************************)
(* metrics.py: commits_per_day, commits_per_week, top_contributors         *)
(***************************************************************************)
\* Strings are sequences of characters; CharOrder lists the characters that
\* occur in dates and keys in the order of their code points.
CharOrder == <<"-", "0", "1", "2", "3", "4", "5", "6", "7", "8", "9", ":", "T", "W", "Z">>
CodePoint(c) == CHOOSE i \in DOMAIN CharOrder : CharOrder[i] = c
DigitOf(n) == CharOrder[n + 2]
DigitValue(c) == CodePoint(c) - 2
\* Python's < on str
RECURSIVE StrLess(_, _)
StrLess(a, b) ==
    IF b = <<>> THEN FALSE
    ELSE IF a = <<>> THEN TRUE
    ELSE IF Head(a) = Head(b) THEN StrLess(Tail(a), Tail(b))
    ELSE CodePoint(Head(a)) < CodePoint(Head(b))
\* str(n) for n >= 0, and n zero-padded to w digits
RECURSIVE Decimal(_)
Decimal(n) == IF n < 10 THEN <<DigitOf(n)>> ELSE Decimal(n \div 10) \o <<DigitOf(n % 10)>>
RECURSIVE Padded(_, _)
Padded(n, w) == IF w = 0 THEN <<>> ELSE Padded(n \div 10, w - 1) \o <<DigitOf(n % 10)>>
RECURSIVE ParseInt(_)
ParseInt(cs) ==
    IF cs = <<>> THEN 0
    ELSE 10 * ParseInt(SubSeq(cs, 1, Len(cs) - 1)) + DigitValue(cs[Len(cs)])

\* the author date of a commit as the upstream sends it: "YYYY-MM-DDTHH:00:00Z"
IsoZ(t) == Padded(t.y, 4) \o <<"-">> \o Padded(t.m, 2) \o <<"-">> \o Padded(t.d, 2) \o <<"T">>
           \o Padded(t.h, 2) \o <<":", "0", "0", ":", "0", "0", "Z">>
AuthorDate(c) == IsoZ(c.ts)
\* date_str.split("T")[0]
RECURSIVE BeforeT(_)
BeforeT(cs) == IF cs = <<>> \/ Head(cs) = "T" THEN <<>> ELSE <<Head(cs)>> \o BeforeT(Tail(cs))
\* datetime.fromisoformat(date_str.replace("Z", "+00:00")): the date fields
FromIsoFormat(cs) == [y |-> ParseInt(SubSeq(cs, 1, 4)), m |-> ParseInt(SubSeq(cs, 6, 7)),
                      d |-> ParseInt(SubSeq(cs, 9, 10))]

\* date.toordinal() and date.isocalendar()
IsLeap(y) == y % 4 = 0 /\ (y % 100 # 0 \/ y % 400 = 0)
DaysBeforeYear(y) == (y - 1) * 365 + (y - 1) \div 4 - (y - 1) \div 100 + (y - 1) \div 400
DaysInMonth(y, m) == IF m = 2 THEN (IF IsLeap(y) THEN 29 ELSE 28)
                     ELSE IF m \in {4, 6, 9, 11} THEN 30 ELSE 31
RECURSIVE DaysBeforeMonth(_, _)
DaysBeforeMonth(y, m) == IF m = 1 THEN 0 ELSE DaysBeforeMonth(y, m - 1) + DaysInMonth(y, m - 1)
Ordinal(y, m, d) == DaysBeforeYear(y) + DaysBeforeMonth(y, m) + d
IsoWeek1Monday(y) ==
    LET firstday == Ordinal(y, 1, 1)
        firstweekday == (firstday + 6) % 7
        monday == firstday - firstweekday IN
    IF firstweekday > 3 THEN monday + 7 ELSE monday
IsoCalendar(t) ==
    LET today == Ordinal(t.y, t.m, t.d)
        week == (today - IsoWeek1Monday(t.y)) \div 7 IN
    IF today < IsoWeek1Monday(t.y)
    THEN [year |-> t.y - 1, week |-> (today - IsoWeek1Monday(t.y - 1)) \div 7 + 1]
    ELSE IF week >= 52 /\ today >= IsoWeek1Monday(t.y + 1)
    THEN [year |-> t.y + 1, week |-> 1]
    ELSE [year |-> t.y, week |-> week + 1]
\* key = f"{year}-W{week}"
WeekKey(cs) == LET iso == IsoCalendar(FromIsoFormat(cs)) IN
               Decimal(iso.year) \o <<"-", "W">> \o Decimal(iso.week)

\* counts = defaultdict(int); counts[key] += 1 for each key: the items of
\* the dict, in the order the keys were first seen
CountOf(keys, k) == Cardinality({ i \in DOMAIN keys : keys[i] = k })
RECURSIVE FirstSeen(_, _)
FirstSeen(keys, seen) ==
    IF keys = <<>> THEN <<>>
    ELSE IF Head(keys) \in seen THEN FirstSeen(Tail(keys), seen)
    ELSE <<Head(keys)>> \o FirstSeen(Tail(keys), seen \cup {Head(keys)})
CountItems(keys) == [i \in DOMAIN FirstSeen(keys, {}) |->
                        <<FirstSeen(keys, {})[i], CountOf(keys, FirstSeen(keys, {})[i])>>]
Without(items, i) == SubSeq(items, 1, i - 1) \o SubSeq(items, i + 1, Len(items))

\* (a slip the return could make: the items as counted, not sorted)
MutUnsorted(items) == items
\* dict(sorted(counts.items())): the keys are distinct, so by key, as str
RECURSIVE SortedItems(_)
SortedItems(items) ==
    IF items = <<>> THEN <<>>
    ELSE LET i == CHOOSE j \in DOMAIN items :
                     \A l \in DOMAIN items : l = j \/ StrLess(items[j][1], items[l][1]) IN
         <<items[i]>> \o SortedItems(Without(items, i))

CommitsPerDay(commits) == SortedItems(CountItems([i \in DOMAIN commits |-> BeforeT(AuthorDate(commits[i]))]))
CommitsPerWeek(commits) == SortedItems(CountItems([i \in DOMAIN commits |-> WeekKey(AuthorDate(commits[i]))]))

\* author = c["commit"]["author"]["name"] or "Unknown"
AuthorOf(c) == IF Truthy(c.name) THEN c.name[2] ELSE "Unknown"
\* (a slip the sort could make: an ascending sort reversed, which turns ties around)
RECURSIVE MutTiesReversed(_)
MutTiesReversed(items) ==
    IF items = <<>> THEN <<>>
    ELSE LET i == CHOOSE j \in DOMAIN items :
                     \A l \in DOMAIN items :
                        /\ items[l][2] <= items[j][2]
                        /\ (l > j => items[l][2] < items[j][2]) IN
         <<items[i]>> \o MutTiesReversed(Without(items, i))
\* sorted(..., key=count, reverse=True): stable, so equal counts keep their order
RECURSIVE ByCountDescending(_)
ByCountDescending(items) ==
    IF items = <<>> THEN <<>>
    ELSE LET i == CHOOSE j \in DOMAIN items :
                     \A l \in DOMAIN items :
                        /\ items[l][2] <= items[j][2]
                        /\ (l < j => items[l][2] < items[j][2]) IN
         <<items[i]>> \o ByCountDescending(Without(items, i))
\* list[:limit]
SliceTo(list, limit) ==
    IF limit >= 0 THEN SubSeq(list, 1, Min(limit, Len(list)))
    ELSE SubSeq(list, 1, Len(list) + limit)
TopContributors(commits, limit) ==
    LET sorted == ByCountDescending(CountItems([i \in DOMAIN commits |-> AuthorOf(commits[i])])) IN
    SliceTo([i \in DOMAIN sorted |-> [author |-> sorted[i][1], commits |-> sorted[i][2]]], limit)

\* The commit lists are at most MaxCommits long; the author times span two
\* commits of one day, ISO weeks 2 and 10 of 2025, and a day of 2024 that
\* lies in ISO week 1 of 2025.
MaxCommits == 3
MetricTimes == { [y |-> 2025, m |-> 1, d |-> 6, h |-> 9], [y |-> 2025, m |-> 1, d |-> 6, h |-> 23],
                 [y |-> 2025, m |-> 3, d |-> 5, h |-> 12], [y |-> 2024, m |-> 12, d |-> 30, h |-> 8] }
AuthorNames == { PyStr("ann"), PyStr("bob"), None }
MetricCommits == { [ts |-> t, name |-> n] : t \in MetricTimes, n \in AuthorNames }
\* the limits a caller passes: the query parameter of /contributors/top is any int
Limits == {-1, 0, 1, 2, 10}
NoOut == [fn |-> "none"]
MetricsIdle ==
    /\ mCommits = <<>>
    /\ mOut = NoOut

PerDay ==
    /\ mOut = NoOut
    /\ mOut' = [fn |-> "commits_per_day", value |-> CommitsPerDay(mCommits)]
    /\ UNCHANGED <<mCommits, fsVars, harnessVars, clientVars, ragVars, winVars, idxVars, prList, raceVars>>
PerWeek ==
    /\ mOut = NoOut
    /\ mOut' = [fn |-> "commits_per_week", value |-> CommitsPerWeek(mCommits)]
    /\ UNCHANGED <<mCommits, fsVars, harnessVars, clientVars, ragVars, winVars, idxVars, prList, raceVars>>
Top ==
    /\ mOut = NoOut
    /\ \E limit \in Limits :
          mOut' = [fn |-> "top_contributors", limit |-> limit,
                   value |-> TopContributors(mCommits, limit)]
    /\ UNCHANGED <<mCommits, fsVars, harnessVars, clientVars, ragVars, winVars, idxVars, prList, raceVars>>

(***************************************************************************)
(* rag_pipeline.py: _build_pr_docs, and the upsert of what it built        *)
(***************************************************************************)
\* A text is a sequence of pieces; the character at position i of a PR body
\* is written "i", so that every character of a body is told from the others.
BodyLimit == 2000
TruncationMarker == <<"\n", ".", ".", ".", "[", "t", "r", "u", "n", "c", "a", "t", "e", "d", "]">>
BodyText(n) == PyStr([i \in 1..n |-> ToString(i)])

\* (a slip the test could make: `>=` for `>`)
MutTruncateFrom(body) ==
    IF Len(body) >= BodyLimit THEN SubSeq(body, 1, BodyLimit) \o TruncationMarker ELSE body
\* if len(body) > 2000: body = body[:2000] + "\n...[truncated]"
TruncateBody(body) ==
    IF Len(body) > BodyLimit THEN SubSeq(body, 1, BodyLimit) \o TruncationMarker ELSE body
\* body = pr.get("body") or ""
BodyOf(pr) == IF pr.body = None THEN <<>> ELSE pr.body[2]
\* f"[PR #{number}] {title}\n\nAuthor: {user}\nState: {state}\n\n"
PrHeader(pr) == <<"[PR #", ToString(pr.number), "] ", pr.title, "\n\nAuthor: ", pr.user, "\nState: ", pr.state, "\n\n">>
PrText(pr) == PrHeader(pr) \o TruncateBody(BodyOf(pr))
PrMetadata(pr, repo) == [repo |-> repo, type |-> "pr", number |-> pr.number,
                         author |-> pr.user, state |-> pr.state]
\* doc_id = f"pr:{repo_full_name}:{number}"
PrDocId(pr, repo) == <<"pr", repo, pr.number>>
\* _build_pr_docs(prs, repo_full_name): ids, texts, metadatas
BuildPrDocs(prs, repo) ==
    [ids |-> [i \in DOMAIN prs |-> PrDocId(prs[i], repo)],
     texts |-> [i \in DOMAIN prs |-> PrText(prs[i])],
     metadatas |-> [i \in DOMAIN prs |-> PrMetadata(prs[i], repo)]]

\* The lists hold at most MaxPrs pull requests, numbered from 1; the bodies
\* are absent, empty, short, of the limit's length, and longer.
MaxPrs == 2
BodyLengths == {0, 1, BodyLimit, BodyLimit + 1, BodyLimit + 500}
PrBodies == {None} \cup { BodyText(n) : n \in BodyLengths }
PullRequests == { [number |-> n, title |-> "t", user |-> "u", state |-> StateOf(n), body |-> b] :
                    n \in 1..MaxPrs, b \in PrBodies }
PrLists == { l \in SeqsUpTo(PullRequests, MaxPrs) :
               \A i, j \in DOMAIN l : l[i].number = l[j].number => i = j }
PrRepo == "o/r"

\* index_repo_activity, from the pull requests fetched on:
\* _build_pr_docs(prs, repo_full_name); if pr_ids: upsert_documents(...)
IndexPrs ==
    /\ ~upCall.called
    /\ prList # <<>>
    /\ LET docs == BuildPrDocs(prList, PrRepo)
           r == UpsertDocuments(index, docs.ids, docs.texts, docs.metadatas) IN
       /\ index' = r.index
       /\ upCall' = [called |-> TRUE, ids |-> docs.ids, texts |-> docs.texts,
                     metadatas |-> docs.metadatas, raised |-> r.raised, error |-> r.error,
                     embedded |-> r.embedded, before |-> index]
    /\ UNCHANGED <<qCall, prList, fsVars, harnessVars, clientVars, ragVars, winVars, metVars, raceVars>>

(***************************************************************************)
(* Two get_commits requests at once: load_cache, the fetch, and save_cache *)
(* as the file system sees it.  open(path, "w") empties the file; the      *)
(* text json.dump writes reaches the file block by block, each request at  *)
(* its own offset; a block is scaled down to one token.                    *)
(***************************************************************************)
Requests == {1, 2}
RaceKey == "o_r_commits"
RacePath == PathOf(RaceKey, "commits")
\* what lies between the end of the file and a block written beyond it
Hole == "\\0"
RECURSIVE Holes(_)
Holes(n) == IF n <= 0 THEN <<>> ELSE <<Hole>> \o Holes(n - 1)
\* the file after a write of one block at offset pos (counted from 0)
WriteAt(content, pos, block) ==
    IF pos < Len(content) THEN [content EXCEPT ![pos + 1] = block]
    ELSE content \o Holes(pos - Len(content)) \o <<block>>
NoRaceLoad == [called |-> FALSE]
RaceIdle ==
    /\ rpc = [p \in Requests |-> "idle"]
    /\ rval = [p \in Requests |-> None]
    /\ rpos = [p \in Requests |-> 0]
    /\ closes = <<>>
    /\ rload = NoRaceLoad
RaceFrame == UNCHANGED <<unreadable, cacheWritable, harnessVars, clientVars, ragVars, winVars,
                         idxVars, metVars, prList>>

\* cached = load_cache(cache_key, "commits"); if cached: return cached
RaceLookup(p) ==
    /\ rpc[p] = "start"
    /\ LET r == LoadCache(RaceKey, "commits") IN
       /\ rload' = [called |-> TRUE, by |-> p, value |-> r.value]
       /\ rpc' = [rpc EXCEPT ![p] = IF CacheHit(r.value) THEN "done" ELSE "fetch"]
    /\ dirs' = DirsAfterLoad("commits")
    /\ UNCHANGED <<files, rval, rpos, closes>>
    /\ RaceFrame
\* the paginated fetch, which ends with the list the upstream holds at that time
RaceFetch(p) ==
    /\ rpc[p] = "fetch"
    /\ \E up \in UpstreamLists : rval' = [rval EXCEPT ![p] = PyList(RespJson(up))]
    /\ rpc' = [rpc EXCEPT ![p] = "open"]
    /\ UNCHANGED <<dirs, files, rpos, closes, rload>>
    /\ RaceFrame
\* save_cache: path = cache_path(...); open(path, "w")
RaceOpen(p) ==
    /\ rpc[p] = "open"
    /\ rpc' = [rpc EXCEPT ![p] = "write"]
    /\ dirs' = DirsAfter("commits")
    /\ files' = [q \in (DOMAIN files) \cup {RacePath} |-> IF q = RacePath THEN <<>> ELSE files[q]]
    /\ rpos' = [rpos EXCEPT ![p] = 0]
    /\ UNCHANGED <<rval, closes, rload>>
    /\ RaceFrame
\* save_cache: one block of json.dump(data, f) reaches the file
RaceWrite(p) ==
    /\ rpc[p] = "write"
    /\ rpos[p] < Len(JsonDump(rval[p]))
    /\ files' = [files EXCEPT ![RacePath] = WriteAt(@, rpos[p], JsonDump(rval[p])[rpos[p] + 1])]
    /\ rpos' = [rpos EXCEPT ![p] = @ + 1]
    /\ UNCHANGED <<dirs, rpc, rval, closes, rload>>
    /\ RaceFrame
\* save_cache: the file is closed; return commits
RaceClose(p) ==
    /\ rpc[p] = "write"
    /\ rpos[p] = Len(JsonDump(rval[p]))
    /\ rpc' = [rpc EXCEPT ![p] = "done"]
    /\ closes' = Append(closes, p)
    /\ UNCHANGED <<dirs, files, rval, rpos, rload>>
    /\ RaceFrame
\* a load_cache of the same key by any other request (0)
RaceRead ==
    /\ \E p \in Requests : rpc[p] \notin {"start", "done"}
    /\ rload' = [called |-> TRUE, by |-> 0, value |-> LoadCache(RaceKey, "commits").value]
    /\ dirs' = DirsAfterLoad("commits")
    /\ UNCHANGED <<files, rpc, rval, rpos, closes>>
    /\ RaceFrame

\* Nothing is indexed and no call of the parts beside the pipeline is under way.
ExtIdle == IndexIdle /\ MetricsIdle /\ prList = <<>> /\ RaceIdle

Init == CacheInit /\ HarnessInit /\ ClientIdle /\ RagIdle /\ WinIdle /\ ExtIdle
Next ==
    \/ Begin
    \/ ParseUrl
    \/ CacheLookup
    \/ PageRequest
    \/ SingleRequest
    \/ CacheStore
    \/ Finish
    \/ Damage
Spec == Init /\ [][Next]_vars

\* The calls of the answer / summary pipeline, one after the other.
InitRag == Init
NextRag ==
    \/ BeginRag
    \/ ParseUrl
    \/ InferWindow
    \/ CacheLookup
    \/ PageRequest
    \/ CacheStore
    \/ FilterCommits
    \/ ComputeMetrics
    \/ CheckActivity
    \/ QueryIndex
    \/ Generate
    \/ Finish
    \/ Damage
SpecRag == InitRag /\ [][NextRag]_vars

\* The same pipelines over histories that hold commits without a usable date.
InitRagDates == Init
NextRagDates ==
    \/ BeginRagDated
    \/ ParseUrl
    \/ InferWindow
    \/ CacheLookup
    \/ PageRequest
    \/ CacheStore
    \/ FilterCommits
    \/ ComputeMetrics
    \/ CheckActivity
    \/ QueryIndex
    \/ Generate
    \/ Finish
    \/ Damage
SpecRagDates == InitRagDates /\ [][NextRagDates]_vars

\* The cache alone, on a file system that works.
NextCache == CacheSave \/ CacheLoad
InitCache == CacheInit /\ HarnessInit /\ ClientIdle /\ RagIdle /\ WinIdle /\ ExtIdle
SpecCache == InitCache /\ [][NextCache]_vars

\* The cache alone, on a file system that may fail.
InitCacheFaults ==
    /\ dirs = {}
    /\ files = <<>>
    /\ unreadable = {}
    /\ cacheWritable \in BOOLEAN
    /\ HarnessInit
    /\ ClientIdle
    /\ RagIdle
    /\ WinIdle
    /\ ExtIdle
NextCacheFaults == CacheSave \/ CacheLoad \/ CacheTruncate \/ CacheChmod \/ SetWritable
SpecCacheFaults == InitCacheFaults /\ [][NextCacheFaults]_vars

\* infer_time_window alone, on every question.
InitWindow ==
    /\ CacheInit
    /\ HarnessInit
    /\ ClientIdle
    /\ RagIdle
    /\ wq \in Questions
    /\ wres = Pending
    /\ ExtIdle
NextWindow == Infer
SpecWindow == InitWindow /\ [][NextWindow]_vars

\* The vector index alone: upserts and queries in any order.
InitIndex == Init
NextIndex == Upsert \/ Query \/ IndexReturn
SpecIndex == InitIndex /\ [][NextIndex]_vars

\* The metrics functions alone, on every commit list.
InitMetrics ==
    /\ CacheInit
    /\ HarnessInit
    /\ ClientIdle
    /\ RagIdle
    /\ WinIdle
    /\ IndexIdle
    /\ mCommits \in SeqsUpTo(MetricCommits, MaxCommits)
    /\ mOut = NoOut
    /\ prList = <<>>
    /\ RaceIdle
NextMetrics == PerDay \/ PerWeek \/ Top
SpecMetrics == InitMetrics /\ [][NextMetrics]_vars

\* The indexing of pull requests alone, on every list of pull requests.
InitPrDocs ==
    /\ CacheInit
    /\ HarnessInit
    /\ ClientIdle
    /\ RagIdle
    /\ WinIdle
    /\ IndexIdle
    /\ MetricsIdle
    /\ prList \in PrLists
    /\ RaceIdle
NextPrDocs == IndexPrs \/ IndexReturn
SpecPrDocs == InitPrDocs /\ [][NextPrDocs]_vars

\* Two get_commits requests for a repository that is not cached yet, and a reader.
InitRace ==
    /\ CacheInit
    /\ HarnessInit
    /\ ClientIdle
    /\ RagIdle
    /\ WinIdle
    /\ IndexIdle
    /\ MetricsIdle
    /\ prList = <<>>
    /\ rpc = [p \in Requests |-> "start"]
    /\ rval = [p \in Requests |-> None]
    /\ rpos = [p \in Requests |-> 0]
    /\ closes = <<>>
    /\ rload = NoRaceLoad
NextRace ==
    \/ \E p \in Requests : RaceLookup(p)
    \/ \E p \in Requests : RaceFetch(p)
    \/ \E p \in Requests : RaceOpen(p)
    \/ \E p \in Requests : RaceWrite(p)
    \/ \E p \in Requests : RaceClose(p)
    \/ RaceRead
SpecRace == InitRace /\ [][NextRace]_vars

(***************************************************************************)
(* Properties                                                              *)
(***************************************************************************)

\* The precedence table of the time-window inference: the keywords of each
\* rule and the value it gives, in the order the rules are tried.
WindowRules ==
    << [kws |-> {K_today}, val |-> PyInt(1)],
       [kws |-> {K_yesterday}, val |-> PyInt(2)],
       [kws |-> {K_this_week, K_past_week, K_last_week, K_recent, K_recently}, val |-> PyInt(7)],
       [kws |-> {K_this_month, K_last_month, K_past_month}, val |-> PyInt(30)],
       [kws |-> {K_this_year, K_last_year, K_past_year}, val |-> PyInt(365)],
       [kws |-> {K_why, K_how, K_architecture, K_tokenizer, K_design, K_model}, val |-> None] >>
RuleMatches(i, text) == \E kw \in WindowRules[i].kws : Contains(Lower(text), kw)
FirstRuleValue(text) ==
    IF \E i \in 1..Len(WindowRules) : RuleMatches(i, text)
    THEN WindowRules[CHOOSE i \in 1..Len(WindowRules) :
                        RuleMatches(i, text) /\ \A j \in 1..(i - 1) : ~RuleMatches(j, text)].val
    ELSE PyInt(30)

\* C4: for every question, infer_time_window returns the value of the first
\* rule of the precedence table one of whose keywords occurs in the
\* lower-cased question, and 30 when no keyword occurs.
C4_FirstRuleWins == wres # Pending => wres = FirstRuleValue(wq)
\* a question with a time keyword and a conceptual keyword, not in lower case
C4_Witness ==
    /\ wres = PyInt(365)
    /\ Contains(Lower(wq), K_why)
    /\ ~Contains(wq, K_why)

\* the (key, folder) pair of the last load
LoadedPair == <<loaded.key, loaded.folder>>

\* C5: a load_cache(key, folder) that follows any sequence of save_cache
\* calls returns, without raising, the value of the last save_cache on that
\* very (key, folder) pair, and None when the pair was never saved.
C5_RoundTrip ==
    loaded.called =>
        /\ ~loaded.raised
        /\ loaded.value = IF LoadedPair \in DOMAIN lastSaved THEN lastSaved[LoadedPair] ELSE None
\* a nested list is loaded back while the same key in another folder and
\* another key in the same folder hold other values
C5_Witness ==
    /\ loaded.called
    /\ LoadedPair = <<"o_r_commits", "commits">>
    /\ DOMAIN lastSaved = CachePairs
    /\ loaded.value[1] = "list"
    /\ Len(loaded.value[2]) = 3
    /\ \A kf \in CachePairs \ {LoadedPair} : lastSaved[kf] # loaded.value

\* C6: load_cache never propagates an error to its caller, whatever fails
\* while it runs.
C6_LoadNeverRaises == loaded.called => ~loaded.raised

\* what the cache held for the call's key when the call began
BeforeValue ==
    IF CallPath \in DOMAIN before /\ JsonLoad(before[CallPath]).ok
    THEN JsonLoad(before[CallPath]).v
    ELSE None
RECURSIVE Concat(_)
Concat(pages) == IF pages = <<>> THEN <<>> ELSE Head(pages) \o Concat(Tail(pages))
\* the call is one of the upstream client's and its URL was parsed
ClientCallParsed == op \in ClientOps /\ pc \notin {"idle", "parse"} /\ error # ValueErrorInvalidUrl

\* C7: a call of get_commits, get_pull_requests or get_contributors issues
\* no upstream request exactly when the cache held a truthy value under its
\* key when it began, and then it returns that value; when the entry was
\* absent, unreadable as JSON or falsy (the empty list), the call fetches
\* from the upstream again.
C7_CacheGate ==
    (ClientCallParsed /\ KindOf(op) \in CachedKinds) =>
        /\ Truthy(BeforeValue) => reqLog = <<>>
        /\ (pc = "done" /\ Truthy(BeforeValue)) => (hit /\ fetched = BeforeValue)
        /\ (pc \in {"done", "failed"} /\ ~Truthy(BeforeValue)) => reqLog # <<>>
        /\ (pc = "done" /\ ~Truthy(BeforeValue)) =>
              /\ ~hit
              /\ Len(pagesGot) = Len(reqLog)
              /\ KindOf(op) \in PagedKinds => pagesGot[Len(pagesGot)] = <<>>
\* the cache held the empty list, the call fetched again and got a non-empty list
C7_Witness ==
    /\ pc = "done"
    /\ op = "get_commits"
    /\ CallPath \in DOMAIN before
    /\ BeforeValue = PyList(<<>>)
    /\ reqLog # <<>>
    /\ fetched # PyList(<<>>)

\* C8: on a cache miss get_commits and get_pull_requests request the pages
\* 1, 2, 3, ... in order, each once, stop at the first empty page, return the
\* concatenation of the pages before it, in order, and have saved exactly
\* that list in the cache when they return; the loop is left only on an
\* empty page or a failed request.
C8_Pagination ==
    (ClientCallParsed /\ KindOf(op) \in PagedKinds /\ ~hit) =>
        /\ \A i \in 1..Len(reqLog) : reqLog[i].page = i /\ reqLog[i].endpoint = KindOf(op)
        /\ pc = "page" =>
              /\ page = Len(reqLog) + 1
              /\ Len(pagesGot) = Len(reqLog)
              /\ \A i \in 1..Len(pagesGot) : pagesGot[i] # <<>>
        /\ pc \in {"save", "done"} =>
              /\ Len(pagesGot) = Len(reqLog)
              /\ Len(pagesGot) >= 1
              /\ pagesGot[Len(pagesGot)] = <<>>
              /\ \A i \in 1..(Len(pagesGot) - 1) : pagesGot[i] # <<>>
        /\ pc = "failed" => (reqLog # <<>> /\ ~lastResp.ok)
        /\ pc = "done" =>
              /\ fetched = PyList(Concat(SubSeq(pagesGot, 1, Len(pagesGot) - 1)))
              /\ LoadCache(CacheKey(url, KindOf(op)), KindOf(op)).value = fetched
\* two non-empty pages and the empty one were received
C8_Witness ==
    /\ pc = "done"
    /\ op = "get_commits"
    /\ ~hit
    /\ Len(reqLog) = 3
    /\ Len(fetched[2]) = 2

\* C9: when a page request of get_commits or get_pull_requests is not
\* answered with success, the call raises an error that carries the status
\* and the body of that response, returns nothing, sends no further request
\* (the failed page was requested once) and leaves the cache as it was.
C9_AbortOnFailure ==
    (ClientCallParsed /\ KindOf(op) \in PagedKinds /\ ~lastResp.ok) =>
        /\ pc = "failed"
        /\ error[1] = "Exception"
        /\ error[3] = lastResp.status
        /\ error[4] = lastResp.text
        /\ fetched = None
        /\ files = before
        /\ Len(pagesGot) = Len(reqLog) - 1
        /\ \A i \in 1..Len(reqLog) : reqLog[i].page = i
        /\ ~ENABLED PageRequest
        /\ ~ENABLED CacheStore
\* the second page failed after a first page was received, over a damaged cache file
C9_Witness ==
    /\ pc = "failed"
    /\ op = "get_pull_requests"
    /\ Len(reqLog) = 2
    /\ acc # <<>>
    /\ CallPath \in DOMAIN before
    /\ error[3] = 403

\* C10: get_contributors and get_branches return everything the upstream
\* holds, however many pages that is.
C10_ListsAreComplete ==
    (pc = "done" /\ op \in {"get_contributors", "get_branches"} /\ ~hit) =>
        fetched = PyList(RespJson(upstream))

\* ---- the answer / summary pipeline ----
HasEvent(e) == \E i \in 1..Len(events) : events[i] = e
IsPrefix(s, t) == Len(s) <= Len(t) /\ s = SubSeq(t, 1, Len(s))
Ended == pc \in {"done", "failed"}
\* _filter_commits_by_days has returned its list in this request
FilterReturned == HasEvent("filter") /\ error # ValueErrorDate
AnswerSteps == <<"parse", "infer", "fetch", "filter", "metrics", "index", "llm">>

\* C1: in an answer_question request in which no commit is left after the
\* window filter, the generation service is never called and the index is
\* never queried, and the request returns the canned answer
\* "No activity in this period." with an empty used_context.
C1_NoActivityExit ==
    (op = "answer_question" /\ FilterReturned /\ recent = <<>>) =>
        /\ llmCalls = 0
        /\ idxQueries = <<>>
        /\ pc \in {"metrics", "check", "done"}
        /\ (Ended => /\ pc = "done"
                     /\ ragResult.returned
                     /\ ragResult.answer = NoActivity
                     /\ ragResult.used_context = <<>>)
\* a request on a repository that has commits, none of them in the window, has returned
C1_Witness ==
    /\ op = "answer_question" /\ pc = "done"
    /\ fetched # None /\ Len(fetched[2]) > 0
    /\ window # None
    /\ recent = <<>>
    /\ ragResult.returned /\ ragResult.answer = NoActivity

\* C2: an answer_question request takes its steps in the order parse URL,
\* infer window, fetch, filter, metrics, index query, generation call; the
\* generation service is called at most once and only after the index
\* query; a request with commits left after the filter that ends has taken
\* every step, has called the service exactly once, and, when it returns,
\* its answer is the text that call returned.
C2_StepOrder ==
    op = "answer_question" =>
        /\ IsPrefix(events, AnswerSteps)
        /\ llmCalls = (IF HasEvent("llm") THEN 1 ELSE 0)
        /\ Len(idxQueries) = (IF HasEvent("index") THEN 1 ELSE 0)
        /\ (FilterReturned /\ Len(recent) > 0 /\ Ended =>
               /\ events = AnswerSteps
               /\ llmCalls = 1
               /\ (pc = "done" => ragResult.returned /\ ragResult.answer = llmText))
\* a request with commits in the window has returned the generated text
C2_Witness ==
    /\ op = "answer_question" /\ pc = "done"
    /\ Len(recent) > 0
    /\ llmCalls = 1
    /\ ragResult.returned /\ ragResult.answer = llmText /\ llmText \in LlmTexts

\* C3: summarize_repo never takes the early exit: a request whose URL
\* parses and whose fetch succeeds, also one with no commit in the window,
\* has queried the index exactly once, with the text "recent activity",
\* and has called the generation service exactly once when it ends; when
\* it returns, the summary is the text that call returned.
C3_SummaryAlwaysGenerates ==
    op = "summarize_repo" =>
        /\ pc # "check"
        /\ llmCalls <= 1
        /\ (Ended /\ ExtractOwnerRepo(url).ok /\ fetched # None =>
               /\ Len(idxQueries) = 1
               /\ idxQueries[1].text = RecentActivity
               /\ idxQueries[1].repo = RepoFullName(url)
               /\ llmCalls = 1)
        /\ (pc = "done" => ragResult.returned /\ ragResult.summary = llmText)
\* a summary of a repository with commits, none of them in the window, has returned
C3_Witness ==
    /\ op = "summarize_repo" /\ pc = "done"
    /\ fetched # None /\ Len(fetched[2]) > 0
    /\ recent = <<>>
    /\ metrics.computed /\ metrics.total_commits_recent = 0
    /\ llmCalls = 1 /\ Len(idxQueries) = 1
    /\ ragResult.returned /\ ragResult.summary = llmText

\* ---- the vector index ----
\* C11 (as stated): upsert_documents raises ShapeMismatch whenever ids,
\* texts and metadatas do not all have the same length.
C11_MismatchAlwaysRaises ==
    (upCall.called /\ ~SameLength(upCall.ids, upCall.texts, upCall.metadatas)) =>
        (upCall.raised /\ upCall.error = ShapeMismatch)

\* C11 (amended): with ids empty upsert_documents returns, embeds nothing
\* and leaves the index as it was, whatever the lengths of texts and
\* metadatas; with ids non-empty and lengths that differ it raises
\* ShapeMismatch, embeds nothing and leaves the index as it was; otherwise
\* it embeds the texts in one batch and the index holds, for each id, the
\* text, the metadata and the embedding of that text, a stored document
\* with that id being replaced and every other document kept.
C11_UpsertContract ==
    upCall.called =>
        LET c == upCall
            same == SameLength(c.ids, c.texts, c.metadatas) IN
        /\ (c.ids = <<>> => ~c.raised /\ c.embedded = <<>> /\ index = c.before)
        /\ (c.ids # <<>> /\ ~same =>
              c.raised /\ c.error = ShapeMismatch /\ c.embedded = <<>> /\ index = c.before)
        /\ (c.ids # <<>> /\ same =>
              /\ ~c.raised
              /\ c.embedded = <<c.texts>>
              /\ DOMAIN index = (DOMAIN c.before) \cup Range(c.ids)
              /\ \A i \in DOMAIN c.ids :
                    index[c.ids[i]] = [document |-> c.texts[i], metadata |-> c.metadatas[i],
                                       embedding |-> Embed(c.texts[i])]
              /\ \A id \in (DOMAIN c.before) \ Range(c.ids) : index[id] = c.before[id])
\* a batch of two replaced a stored document; and a call with no ids but a text returned
C11_Witness ==
    /\ upCall.called
    /\ ~upCall.raised
    /\ Len(upCall.ids) = 2
    /\ \E i \in DOMAIN upCall.ids :
          /\ upCall.ids[i] \in DOMAIN upCall.before
          /\ upCall.before[upCall.ids[i]].document # upCall.texts[i]
    /\ \E id \in DOMAIN upCall.before : id \notin Range(upCall.ids)

\* C12: whatever was indexed before, in whatever order, a query for a
\* repository returns at most k documents, each of them stored in the index
\* with metadata repo equal to the repository asked for.
C12_NoCrossRepoLeak ==
    qCall.called =>
        /\ Len(qCall.ids) <= qCall.k
        /\ Len(qCall.documents) = Len(qCall.ids)
        /\ \A i \in DOMAIN qCall.ids :
              /\ qCall.ids[i] \in DOMAIN index
              /\ index[qCall.ids[i]].metadata.repo = qCall.repo
              /\ qCall.metadatas[i].repo = qCall.repo
              /\ qCall.documents[i] = index[qCall.ids[i]].document
\* a query returned a document while the index also held one of the other repository
C12_Witness ==
    /\ qCall.called
    /\ Len(qCall.ids) >= 1
    /\ \E id \in DOMAIN index : index[id].metadata.repo # qCall.repo
    /\ Cardinality(Candidates(index, qCall.repo)) > qCall.k

\* ---- the metrics functions ----
Sum(items) == LET RECURSIVE S(_)
                  S(n) == IF n = 0 THEN 0 ELSE items[n][2] + S(n - 1) IN S(Len(items))
\* the calendar day (UTC) and the ISO (year, week) of an author time
DayOf(t) == <<t.y, t.m, t.d>>
DayKey(t) == Padded(t.y, 4) \o <<"-">> \o Padded(t.m, 2) \o <<"-">> \o Padded(t.d, 2)
Earlier(a, b) == \E i \in 1..Len(a) : a[i] < b[i] /\ \A j \in 1..(i - 1) : a[j] = b[j]
IsoWeekOf(t) == <<IsoCalendar(t).year, IsoCalendar(t).week>>

\* C13: commits_per_day has one entry per calendar day (UTC) of the author
\* times in the input, keyed "YYYY-MM-DD", whose count is the number of
\* commits of that day; the counts sum to the length of the input; the
\* keys are in strictly increasing lexicographic order, which is the
\* chronological order of the days.
C13_PerDay ==
    mOut.fn = "commits_per_day" =>
        LET out == mOut.value IN
        /\ Sum(out) = Len(mCommits)
        /\ { out[i][1] : i \in DOMAIN out } = { DayKey(mCommits[i].ts) : i \in DOMAIN mCommits }
        /\ \A i \in DOMAIN out :
              out[i][2] = Cardinality({ j \in DOMAIN mCommits : DayKey(mCommits[j].ts) = out[i][1] })
        /\ \A i \in 1..(Len(out) - 1) :
              /\ StrLess(out[i][1], out[i + 1][1])
              /\ \A j, l \in DOMAIN mCommits :
                    (DayKey(mCommits[j].ts) = out[i][1] /\ DayKey(mCommits[l].ts) = out[i + 1][1])
                       => Earlier(DayOf(mCommits[j].ts), DayOf(mCommits[l].ts))
\* three commits, two of one day given last and first, the other day the earliest
C13_Witness ==
    /\ mOut.fn = "commits_per_day"
    /\ Len(mCommits) = 3
    /\ Len(mOut.value) = 2
    /\ mOut.value[2][2] = 2
    /\ DayKey(mCommits[1].ts) = mOut.value[2][1]
    /\ DayKey(mCommits[2].ts) = mOut.value[1][1]

\* C14: commits_per_week has one entry per ISO (year, week) of the author
\* times in the input, keyed "{year}-W{week}", the counts sum to the length
\* of the input, and the entries are in ascending (year, week) order.
C14_PerWeekAscending ==
    mOut.fn = "commits_per_week" =>
        LET out == mOut.value IN
        /\ Sum(out) = Len(mCommits)
        /\ Len(out) = Cardinality({ IsoWeekOf(mCommits[i].ts) : i \in DOMAIN mCommits })
        /\ \A i \in 1..(Len(out) - 1) :
              \A j, l \in DOMAIN mCommits :
                 (WeekKey(AuthorDate(mCommits[j])) = out[i][1]
                    /\ WeekKey(AuthorDate(mCommits[l])) = out[i + 1][1])
                 => Earlier(IsoWeekOf(mCommits[j].ts), IsoWeekOf(mCommits[l].ts))

\* the position of the first commit of an author in the input
FirstCommitOf(author) == CHOOSE i \in DOMAIN mCommits :
                            AuthorOf(mCommits[i]) = author /\ \A j \in 1..(i - 1) : AuthorOf(mCommits[j]) # author
CommitsOf(author) == Cardinality({ i \in DOMAIN mCommits : AuthorOf(mCommits[i]) = author })

\* what the claim says of the list returned for mCommits and the limit passed
TopContract ==
        LET out == mOut.value
            returned == { out[i].author : i \in DOMAIN out } IN
        /\ Len(out) <= mOut.limit
        /\ \A i \in DOMAIN out : out[i].commits = CommitsOf(out[i].author)
        /\ \A i \in DOMAIN out :
              out[i].author = "Unknown" =>
                 out[i].commits = Cardinality({ j \in DOMAIN mCommits : mCommits[j].name = None })
        /\ \A i \in 1..(Len(out) - 1) :
              /\ out[i].commits >= out[i + 1].commits
              /\ out[i].commits = out[i + 1].commits =>
                    FirstCommitOf(out[i].author) < FirstCommitOf(out[i + 1].author)
        /\ \A j \in DOMAIN mCommits :
              AuthorOf(mCommits[j]) \notin returned =>
                 \A i \in DOMAIN out : CommitsOf(AuthorOf(mCommits[j])) <= out[i].commits

\* C15 (as stated): for every commit list and every limit,
\* top_contributors(commits, limit) returns at most limit entries, in
\* non-increasing order of commit count, authors with equal counts in the
\* order of their first commit in the input, the commits without an author
\* name counted under "Unknown", and no author left out has more commits
\* than one returned.
C15_TopContributors == mOut.fn = "top_contributors" => TopContract

\* C15 (amended): the same, for every commit list and every limit >= 0.
C15_TopContributorsNonNegative ==
    (mOut.fn = "top_contributors" /\ mOut.limit >= 0) => TopContract
\* three authors with one commit each, the first without a name, and the two first returned
C15_Witness ==
    /\ mOut.fn = "top_contributors"
    /\ mOut.limit = 2
    /\ Len(mCommits) = 3
    /\ mCommits[1].name = None
    /\ Len(mOut.value) = 2
    /\ mOut.value[1].author = "Unknown"
    /\ mOut.value[1].commits = mOut.value[2].commits
    /\ \E j \in DOMAIN mCommits : \A i \in DOMAIN mOut.value : AuthorOf(mCommits[j]) # mOut.value[i].author

\* ---- the documents of pull requests ----
\* C16: the document stored for a pull request is its header followed, for
\* a body of more than 2000 characters, by exactly the first 2000
\* characters of the body and the truncation marker, with no character of
\* the body beyond position 2000, and, for a body of at most 2000
\* characters, by the body unchanged and nothing after it; the text
\* embedded is the text stored, and the stored embedding is that of the
\* stored document.
C16_PrBodyTruncated ==
    (upCall.called /\ prList # <<>>) =>
        /\ upCall.embedded = <<[i \in DOMAIN prList |-> index[PrDocId(prList[i], PrRepo)].document]>>
        /\ \A i \in DOMAIN prList :
              LET pr == prList[i]
                  body == IF pr.body = None THEN <<>> ELSE pr.body[2]
                  stored == index[PrDocId(pr, PrRepo)]
                  doc == stored.document
                  h == Len(PrHeader(pr)) IN
              /\ stored.embedding = Embed(doc)
              /\ SubSeq(doc, 1, h) = PrHeader(pr)
              /\ Len(body) > 2000 =>
                    /\ Len(doc) = h + 2000 + Len(TruncationMarker)
                    /\ SubSeq(doc, h + 1, h + 2000) = SubSeq(body, 1, 2000)
                    /\ SubSeq(doc, h + 2001, Len(doc)) = TruncationMarker
                    /\ Range(SubSeq(body, 2001, Len(body))) \cap Range(doc) = {}
              /\ Len(body) <= 2000 =>
                    SubSeq(doc, h + 1, Len(doc)) = body
\* a body of 2500 characters and one of exactly 2000 were indexed together
C16_Witness ==
    /\ upCall.called
    /\ Len(prList) = 2
    /\ prList[1].body # None /\ Len(prList[1].body[2]) = 2500
    /\ prList[2].body # None /\ Len(prList[2].body[2]) = 2000
    /\ Len(index[PrDocId(prList[1], PrRepo)].document) < 2500
    /\ PrDocId(prList[2], PrRepo) \in DOMAIN index

\* ---- concurrent requests ----
\* C17: with two concurrent get_commits requests that both miss, fetch and
\* save, every load_cache returns absent or one of the complete lists a
\* request has set out to write, and, once both saves have finished, the
\* cache file holds exactly the list of the save that finished last.
C17_NoCorruption ==
    /\ rload.called =>
          \/ rload.value = None
          \/ \E p \in Requests : rpc[p] \in {"write", "done"} /\ rload.value = rval[p]
    /\ Len(closes) = 2 =>
          (RacePath \in DOMAIN files /\ files[RacePath] = JsonDump(rval[closes[2]]))

\* ---- commits without a usable date ----
\* C18: a commit whose author date is missing or does not parse never makes
\* answer_question or summarize_repo fail; with a window the filter leaves
\* that commit out and keeps the others that fall in the window, and with no
\* window the metrics count every commit fetched.
C18_BadDatesNeverFail ==
    op \in PipelineOps =>
       /\ error \notin {ValueErrorDate, KeyErrorDate}
       /\ (FilterReturned /\ window # None => recent = KeepRecent(fetched[2], window[2]))
       /\ (metrics.computed /\ window = None => metrics.total_commits_recent = Len(fetched[2]))

\* ---- pull requests and the state asked for ----
\* the file get_pull_requests keeps for the repository o/r, whatever the state
PrPath == PathOf("o_r_prs", "prs")
\* what that file held when the call began
PrCachedBefore ==
    IF PrPath \in DOMAIN before /\ JsonLoad(before[PrPath]).ok
    THEN JsonLoad(before[PrPath]).v
    ELSE None
\* C19: get_pull_requests keeps one cache entry per repository, o_r_prs,
\* whatever state is asked for: a call that misses saves its list there, and
\* once that entry holds a non-empty list a call with any state returns that
\* list and sends no upstream request; the state travels only in the
\* requests of a call that missed.
C19_StateNotInKey ==
    (ClientCallParsed /\ op = "get_pull_requests") =>
        /\ Truthy(PrCachedBefore) => reqLog = <<>>
        /\ (pc = "done" /\ Truthy(PrCachedBefore)) => (hit /\ fetched = PrCachedBefore)
        /\ \A i \in 1..Len(reqLog) : reqLog[i].state = prState
        /\ (pc = "done" /\ ~hit) => (PrPath \in DOMAIN files /\ files[PrPath] = JsonDump(fetched))
\* a call asking for the open pull requests returned a cached list that holds a closed one
C19_Witness ==
    /\ pc = "done"
    /\ op = "get_pull_requests"
    /\ prState = "open"
    /\ hit
    /\ reqLog = <<>>
    /\ fetched = PrCachedBefore
    /\ \E i \in 1..Len(fetched[2]) : StateOf(fetched[2][i][2]) = "closed"

====
